---- MODULE Spec2Model ----
(***************************************************************************)
(* Facebook Ads Library MCP server: the process start-up of the two entry  *)
(* points (facebook_ads_mcp_complete.py run as a script, serverless_app.py *)
(* mounting the same tool set behind HTTP) and the three tools             *)
(* search_facebook_ads, discover_competitor_brands and                     *)
(* analyze_ad_creative_elements.  A tool invocation is split where the     *)
(* handler blocks on the network: the Call* action runs the handler up to  *)
(* the outbound request, the Remote*/Crawl* action is the answer of the    *)
(* remote side and runs the rest of the handler.                           *)
(*                                                                         *)
(* Strings the code inspects character by character (snapshot URLs, page   *)
(* text) are sequences of one-character strings.  An optional value        *)
(* (Python None) is None == <<>> or Some(v) == <<v>>.                      *)
(***************************************************************************)
EXTENDS Integers, Sequences, FiniteSets, TLC

VARIABLES
    phase,          \* "init" | "serving" | "exited": the process
    host,           \* "none" | "stdio" | "http": the entry point that was run
    exit_status,    \* None, or Some(n) once sys.exit(n) ran
    access_token,   \* fb_api.access_token (None or Some(string))
    pc,             \* "idle" | "waiting": the invocation blocks on its request
    call,           \* the invocation being served / last served: [tool, args]
    req,            \* the outbound request of that invocation
    nreq,           \* outbound requests issued by that invocation
    remote,         \* what the remote side answered to that invocation
    result          \* None, or Some(what the invocation handed to the dispatcher)

vars == <<phase, host, exit_status, access_token, pc, call, req, nreq, remote, result>>

(***************************** bounds ***************************************)
MaxAds == 2         \* longest `data` array of a response under Spec
MaxDataAds == 4     \* longest `data` array of a response under DataSpec
MaxLimit == 2       \* largest `limit` argument
MaxMinAds == 3      \* largest `min_ads` argument
MaxParams == 2      \* most query parameters of a snapshot URL under UrlSpec
MaxNameLen == 3     \* longest parameter name
MaxValueLen == 2    \* longest parameter value
MaxChunks == 3      \* most text fragments of a page under TextSpec

(***************************** values ***************************************)
None == <<>>
Some(v) == <<v>>

Min(a, b) == IF a <= b THEN a ELSE b
Max(a, b) == IF a >= b THEN a ELSE b

SeqsUpTo(S, n) == UNION {[1..k -> S] : k \in 0..n}

\* What a handler hands to the dispatcher: a mapping, or an exception that
\* left the handler.
Return(v) == [raised |-> FALSE, value |-> v]
Raise(e) == [raised |-> TRUE, exc |-> e]

\* Python truthiness of an optional string: None and "" are falsy.
Truthy(t) == t # None /\ t[1] # ""

(***************************** start-up *************************************)
\* sys.argv and the environment the process may be started with.
Argvs ==
    { <<"server">>,
      <<"server", "--facebook-token">>,
      <<"server", "--facebook-token", "T1">>,
      <<"server", "--facebook-token", "">> }
Envs == {None, Some("T2"), Some("")}

\* list.index: the first position holding x.
IndexOf(s, x) == CHOOSE i \in 1..Len(s) : s[i] = x /\ \A j \in 1..(i - 1) : s[j] # x

get_facebook_token(argv, env) ==
    IF \E i \in 1..Len(argv) : argv[i] = "--facebook-token"
    THEN LET token_index == IndexOf(argv, "--facebook-token") + 1
         IN  IF token_index <= Len(argv) THEN Some(argv[token_index]) ELSE env
    ELSE env

\* The module body of facebook_ads_mcp_complete.py: the process-wide client
\* is built from whatever get_facebook_token() returns.
FacebookAdsLibraryAPI(token) == token

IdleCall == [tool |-> "none"]
NoReq == [target |-> "none"]
NoRemote == [kind |-> "none"]

\* python facebook_ads_mcp_complete.py: module body, then the __main__ block.
RunStdio ==
    /\ phase = "init"
    /\ \E argv \in Argvs, env \in Envs :
          LET token == get_facebook_token(argv, env)
          IN  /\ access_token' = FacebookAdsLibraryAPI(get_facebook_token(argv, env))
              /\ IF ~Truthy(token)
                 THEN phase' = "exited" /\ exit_status' = Some(1)
                 ELSE phase' = "serving" /\ exit_status' = None
    /\ host' = "stdio"
    /\ UNCHANGED <<pc, call, req, nreq, remote, result>>

\* serverless_app.py: imports the module (its body runs, its __main__ block
\* does not), mounts mcp.streamable_http_app() and serves it.
RunServerless ==
    /\ phase = "init"
    /\ \E argv \in Argvs, env \in Envs :
          access_token' = FacebookAdsLibraryAPI(get_facebook_token(argv, env))
    /\ phase' = "serving"
    /\ host' = "http"
    /\ UNCHANGED <<exit_status, pc, call, req, nreq, remote, result>>

(***************************** the search client ****************************)
BaseUrl == "https://graph.facebook.com/v19.0/ads_archive"
SearchFields ==
    "id,ad_creation_time,ad_creative_bodies,ad_creative_link_captions,ad_creative_link_descriptions,ad_creative_link_titles,ad_snapshot_url,currency,demographic_distribution,delivery_by_region,impressions,page_id,page_name,publisher_platforms,spend"
DiscoverFields == "page_name,page_id,ad_creation_time"

\* Ad objects of a response: opaque to the search, read for page_name by the
\* discovery.  One has an empty page_name, one has none.
AdObjects ==
    { [page_name |-> "A"], [page_name |-> "B"], [page_name |-> "C"],
      [page_name |-> ""], [id |-> "9"] }
SmallAdObjects == { [page_name |-> "A"], [page_name |-> "B"], [id |-> "9"] }

\* A Python value handed back by _make_request: a decoded JSON payload (a
\* top-level array, or an object with some of the keys data (an array or
\* null), success and error), or the error record the client builds.
PyObject(keys, isnull, data, success, error) ==
    [shape |-> "object", keys |-> keys, data_null |-> isnull, data |-> data,
     success |-> success, error |-> error]
ArrayPayload ==
    [shape |-> "array", keys |-> {}, data_null |-> FALSE, data |-> <<>>,
     success |-> TRUE, error |-> ""]
DataPayload(data) == PyObject({"data"}, FALSE, data, TRUE, "")
OddPayloads ==
    { ArrayPayload,
      PyObject({}, FALSE, <<>>, TRUE, ""),
      PyObject({"data"}, TRUE, <<>>, TRUE, ""),
      PyObject({"success"}, FALSE, <<>>, FALSE, "") }
WellFormed(p) == p.shape = "object" /\ p.keys = {"data"} /\ ~p.data_null

\* A Python object as the mapping the dispatcher serialises.
PyMapping(p) ==
    [k \in p.keys |->
        CASE k = "data" -> (IF p.data_null THEN None ELSE Some(p.data))
          [] k = "success" -> p.success
          [] OTHER -> p.error]

\* dict.get("success") is False
SuccessIsFalse(p) == "success" \in p.keys /\ p.success = FALSE

\* requests.exceptions.RequestException raised by requests.get or by
\* raise_for_status.  A read timeout needs a timeout on the request.
RequestFailures ==
    { [exc |-> "ConnectionError", msg |-> "connection refused"],
      [exc |-> "Timeout", msg |-> "read timed out"],
      [exc |-> "HTTPError", msg |-> "400 Client Error: Bad Request"] }

\* The answer of the remote side to a GET.
Reply(p) == [kind |-> "payload", payload |-> p, failure |-> [exc |-> "", msg |-> ""]]
Failure(f) == [kind |-> "fail", payload |-> ArrayPayload, failure |-> f]

\* _make_request, line 27: the token is stored into the caller's dict.
make_request_params(params, token) == [access_token |-> token] @@ params

\* _make_request, line 29: the GET that is issued (no timeout argument).
make_request_get(params) == [target |-> BaseUrl, params |-> params, timeout |-> None]

\* {"error": str(e), "success": False}
ErrorRecord(msg) == PyObject({"error", "success"}, FALSE, <<>>, FALSE, msg)

\* faulty variant: the except branch hands back an empty mapping
make_request_result_swallow(out) ==
    IF out.kind = "fail" THEN PyObject({}, FALSE, <<>>, TRUE, "") ELSE out.payload

\* _make_request, lines 28-33: the value handed back to the tool.
make_request_result(out) ==
    IF out.kind = "fail" THEN ErrorRecord(out.failure.msg) ELSE out.payload

(***************************** search_facebook_ads **************************)
SearchArgs ==
    [brand_name : {"nike", "puma"}, country : {"US", "GB"},
     ad_type : {"ALL", "POLITICAL_AND_ISSUE_ADS"}, date_range : {30, 7},
     limit : {1, MaxLimit}]

\* lines 98-107
search_params(a) ==
    LET params == [search_terms |-> a.brand_name,
                   ad_reached_countries |-> <<a.country>>,
                   fields |-> SearchFields,
                   limit |-> a.limit,
                   ad_active_status |-> "ALL"]
    IN  IF a.ad_type # "ALL" THEN [ad_type |-> a.ad_type] @@ params ELSE params

\* faulty variant: the ads are cut to the requested limit
search_result_truncated(a, params, r) ==
    IF r.shape # "object" THEN Raise("AttributeError")
    ELSE IF SuccessIsFalse(r) THEN Return(PyMapping(r))
    ELSE IF "data" \in r.keys /\ r.data_null THEN Raise("TypeError")
    ELSE LET data == IF "data" \in r.keys THEN r.data ELSE <<>>
             cut == SubSeq(data, 1, Min(a.limit, Len(data)))
         IN  Return([brand |-> a.brand_name,
                     total_ads |-> Len(cut),
                     ads |-> cut,
                     search_params |-> params,
                     success |-> TRUE])

\* lines 111-120; params is the dict after _make_request stored into it.
search_result(a, params, r) ==
    IF r.shape # "object" THEN Raise("AttributeError")
    ELSE IF SuccessIsFalse(r) THEN Return(PyMapping(r))
    ELSE IF "data" \in r.keys /\ r.data_null THEN Raise("TypeError")
    ELSE LET data == IF "data" \in r.keys THEN r.data ELSE <<>>
         IN  Return([brand |-> a.brand_name,
                     total_ads |-> Len(data),
                     ads |-> data,
                     search_params |-> params,
                     success |-> TRUE])

\* The whole tool, as a function of its arguments, the client's token and
\* the answer of the remote side.
search_facebook_ads(a, token, out) ==
    search_result(a, make_request_params(search_params(a), token),
                  make_request_result(out))

Search(a) ==
    /\ phase = "serving" /\ pc = "idle"
    /\ call' = [tool |-> "search", args |-> a]
    /\ req' = make_request_get(make_request_params(search_params(a), access_token))
    /\ pc' = "waiting"
    /\ nreq' = 1
    /\ remote' = NoRemote
    /\ result' = None
    /\ UNCHANGED <<phase, host, exit_status, access_token>>

(***************************** discover_competitor_brands *******************)
DiscoverArgs ==
    [industry_keywords : {"shoes"}, region : {"US"},
     min_ads : 1..MaxMinAds, limit : 0..MaxLimit]

\* lines 132-138
discover_params(a) ==
    [search_terms |-> a.industry_keywords,
     ad_reached_countries |-> <<a.region>>,
     fields |-> DiscoverFields,
     limit |-> a.limit * 3,
     ad_active_status |-> "ACTIVE"]

\* ad.get("page_name", "")
PageName(ad) == IF "page_name" \in DOMAIN ad THEN ad.page_name ELSE ""

\* brand_counts, an insertion-ordered dict, as the sequence of its items.
HasKey(items, k) == \E i \in 1..Len(items) : items[i][1] = k
Bump(items, k) ==
    IF HasKey(items, k)
    THEN [i \in 1..Len(items) |->
             IF items[i][1] = k THEN <<k, items[i][2] + 1>> ELSE items[i]]
    ELSE Append(items, <<k, 1>>)

\* lines 145-149
RECURSIVE brand_counts(_)
brand_counts(data) ==
    IF data = <<>> THEN <<>>
    ELSE LET n == Len(data)
             counts == brand_counts(SubSeq(data, 1, n - 1))
             page_name == PageName(data[n])
         IN  IF page_name # "" THEN Bump(counts, page_name) ELSE counts

\* lines 151-154
qualified_brands(counts, min_ads) == SelectSeq(counts, LAMBDA it : it[2] >= min_ads)

\* faulty variant: descending, but an item goes in front of those of equal count
InsertDesc_unstable(sorted, it) ==
    LET k == Cardinality({i \in 1..Len(sorted) : sorted[i][2] > it[2]})
    IN  SubSeq(sorted, 1, k) \o <<it>> \o SubSeq(sorted, k + 1, Len(sorted))

\* sorted(items, key=count, reverse=True): stable, descending.
InsertDesc(sorted, it) ==
    LET k == Cardinality({i \in 1..Len(sorted) : sorted[i][2] >= it[2]})
    IN  SubSeq(sorted, 1, k) \o <<it>> \o SubSeq(sorted, k + 1, Len(sorted))
RECURSIVE sorted_brands(_)
sorted_brands(items) ==
    IF items = <<>> THEN <<>>
    ELSE InsertDesc(sorted_brands(SubSeq(items, 1, Len(items) - 1)), items[Len(items)])

\* s[:n]
SliceTo(s, n) ==
    IF n >= 0 THEN SubSeq(s, 1, Min(n, Len(s))) ELSE SubSeq(s, 1, Max(Len(s) + n, 0))

\* lines 142-164
discover_result(a, r) ==
    IF r.shape # "object" THEN Raise("AttributeError")
    ELSE IF SuccessIsFalse(r) THEN Return(PyMapping(r))
    ELSE IF "data" \in r.keys /\ r.data_null THEN Raise("TypeError")
    ELSE LET data == IF "data" \in r.keys THEN r.data ELSE <<>>
             qualified == qualified_brands(brand_counts(data), a.min_ads)
         IN  Return([industry |-> a.industry_keywords,
                     region |-> a.region,
                     discovered_brands |-> SliceTo(sorted_brands(qualified), a.limit),
                     total_qualified_brands |-> Len(qualified),
                     success |-> TRUE])

discover_competitor_brands(a, token, out) == discover_result(a, make_request_result(out))

Discover(a) ==
    /\ phase = "serving" /\ pc = "idle"
    /\ call' = [tool |-> "discover", args |-> a]
    /\ req' = make_request_get(make_request_params(discover_params(a), access_token))
    /\ pc' = "waiting"
    /\ nreq' = 1
    /\ remote' = NoRemote
    /\ result' = None
    /\ UNCHANGED <<phase, host, exit_status, access_token>>

\* The rest of the handler once requests.get came back with `out`.
ToolResult(c, token, out) ==
    IF c.tool = "search" THEN search_facebook_ads(c.args, token, out)
    ELSE discover_competitor_brands(c.args, token, out)

\* The remote side answers with a decodable body and a 2xx status.
RemoteReply(p) ==
    /\ pc = "waiting" /\ call.tool \in {"search", "discover"}
    /\ remote' = Reply(p)
    /\ result' = Some(ToolResult(call, access_token, Reply(p)))
    /\ pc' = "idle"
    /\ UNCHANGED <<phase, host, exit_status, access_token, call, req, nreq>>

\* requests.get or raise_for_status raises a RequestException.
RemoteFail(f) ==
    /\ pc = "waiting" /\ call.tool \in {"search", "discover"}
    /\ f.exc = "Timeout" => req.timeout # None
    /\ remote' = Failure(f)
    /\ result' = Some(ToolResult(call, access_token, Failure(f)))
    /\ pc' = "idle"
    /\ UNCHANGED <<phase, host, exit_status, access_token, call, req, nreq>>
(***************************** text ****************************************)
UpperSeq == <<"A", "B", "C", "D", "E", "F", "G", "H", "I", "J", "K", "L", "M", "N", "O", "P", "Q", "R", "S", "T", "U", "V", "W", "X", "Y", "Z">>
LowerSeq == <<"a", "b", "c", "d", "e", "f", "g", "h", "i", "j", "k", "l", "m", "n", "o", "p", "q", "r", "s", "t", "u", "v", "w", "x", "y", "z">>
DigitSeq == <<"0", "1", "2", "3", "4", "5", "6", "7", "8", "9">>
Letters == {UpperSeq[i] : i \in 1..26} \cup {LowerSeq[i] : i \in 1..26}
Digits == {DigitSeq[i] : i \in 1..10}
Whitespace == {" ", "\n", "\t"}

\* faulty variant: the text is matched as it is, not lowered
LowerChar_identity(c) == c

\* str.lower(), character by character
LowerChar(c) ==
    IF \E i \in 1..26 : UpperSeq[i] = c
    THEN LowerSeq[CHOOSE i \in 1..26 : UpperSeq[i] = c]
    ELSE c
lower(s) == [i \in 1..Len(s) |-> LowerChar(s[i])]

\* \w, and \b in front of position i (positions 1..Len(s)+1)
IsWordChar(c) == c \in Letters \cup Digits \cup {"_"}
WordAt(s, i) == i >= 1 /\ i <= Len(s) /\ IsWordChar(s[i])
Boundary(s, i) == WordAt(s, i - 1) # WordAt(s, i)

\* the literal p starts at position i of s
LitAt(s, i, p) == i + Len(p) - 1 <= Len(s) /\ \A k \in 1..Len(p) : s[i + k - 1] = p[k]

\* \b(?:alts[1]|alts[2]|...)\b tried at position i: the alternatives in order,
\* the first one that lets the closing \b match.
AltMatches(alts, s, i, j) == LitAt(s, i, alts[j]) /\ Boundary(s, i + Len(alts[j]))
MatchesAt(alts, s, i) == Boundary(s, i) /\ \E j \in 1..Len(alts) : AltMatches(alts, s, i, j)
MatchAt(alts, s, i) ==
    alts[CHOOSE j \in 1..Len(alts) :
            AltMatches(alts, s, i, j) /\ \A k \in 1..(j - 1) : ~AltMatches(alts, s, i, k)]

\* re.findall(pattern, s): leftmost, non-overlapping matches, left to right
RECURSIVE FindAllFrom(_, _, _)
FindAllFrom(alts, s, i) ==
    IF i > Len(s) THEN <<>>
    ELSE IF MatchesAt(alts, s, i)
         THEN <<MatchAt(alts, s, i)>> \o FindAllFrom(alts, s, i + Len(MatchAt(alts, s, i)))
         ELSE FindAllFrom(alts, s, i + 1)
findall(alts, s) == FindAllFrom(alts, s, 1)

\* len(s.split()): the maximal runs of non-whitespace
word_count(s) ==
    Cardinality({i \in 1..Len(s) :
        s[i] \notin Whitespace /\ (i = 1 \/ s[i - 1] \in Whitespace)})

\* line 192
SentimentWords ==
    << <<"a", "m", "a", "z", "i", "n", "g">>, <<"b", "e", "s", "t">>, <<"f", "r", "e", "e">>, <<"s", "a", "v", "e">>, <<"n", "e", "w">>, <<"l", "i", "m", "i", "t", "e", "d">>, <<"e", "x", "c", "l", "u", "s", "i", "v", "e">>, <<"n", "o", "w">> >>
\* lines 199-200
CtaPatterns ==
    << << <<"s", "h", "o", "p", " ", "n", "o", "w">>, <<"b", "u", "y", " ", "n", "o", "w">>, <<"l", "e", "a", "r", "n", " ", "m", "o", "r", "e">>, <<"s", "i", "g", "n", " ", "u", "p">>, <<"d", "o", "w", "n", "l", "o", "a", "d">>,
          <<"g", "e", "t", " ", "s", "t", "a", "r", "t", "e", "d">>, <<"t", "r", "y", " ", "f", "r", "e", "e">>, <<"c", "l", "a", "i", "m", " ", "o", "f", "f", "e", "r">> >>,
       << <<"c", "l", "i", "c", "k", " ", "h", "e", "r", "e">>, <<"t", "a", "p", " ", "h", "e", "r", "e">>, <<"s", "w", "i", "p", "e", " ", "u", "p">>, <<"s", "e", "e", " ", "m", "o", "r", "e">>, <<"o", "r", "d", "e", "r", " ", "n", "o", "w">>, <<"b", "o", "o", "k", " ", "n", "o", "w">> >> >>
\* line 211
UrgencyWords ==
    << <<"n", "o", "w">>, <<"t", "o", "d", "a", "y">>, <<"l", "i", "m", "i", "t", "e", "d">>, <<"h", "u", "r", "r", "y">>, <<"u", "r", "g", "e", "n", "t">>, <<"e", "x", "p", "i", "r", "e", "s">>, <<"d", "e", "a", "d", "l", "i", "n", "e">> >>

(***************************** the creative fetcher *************************)
\* _extract_ad_id_from_url, lines 37-38: re.search(r'id=(\d+)', url)
IdPrefix == <<"i", "d", "=">>
IdMatchAt(url, i) ==
    LitAt(url, i, IdPrefix) /\ i + 3 <= Len(url) /\ url[i + 3] \in Digits
DigitRun(url, i) ==
    LET stop == CHOOSE j \in i..Len(url) :
                    /\ \A k \in i..j : url[k] \in Digits
                    /\ (j = Len(url) \/ url[j + 1] \notin Digits)
    IN  SubSeq(url, i, stop)
_extract_ad_id_from_url(url) ==
    IF \E i \in 1..Len(url) : IdMatchAt(url, i)
    THEN LET first == CHOOSE i \in 1..Len(url) :
                          IdMatchAt(url, i) /\ \A j \in 1..(i - 1) : ~IdMatchAt(url, j)
         IN  Some(DigitRun(url, first + 3))
    ELSE None

\* What crawler.arun handed back, or the exception asyncio.run let out.
CrawlPage(html, text) ==
    [kind |-> "page", cleaned_html |-> html, extracted_content |-> text,
     failure |-> [exc |-> "", msg |-> ""]]
CrawlFailure(f) ==
    [kind |-> "fail", cleaned_html |-> None, extracted_content |-> None, failure |-> f]
CrawlFailures ==
    { [exc |-> "RuntimeError", msg |-> "net::ERR_CONNECTION_REFUSED"],
      [exc |-> "TimeoutError", msg |-> "Timeout 60000ms exceeded"] }

\* line 44: the page fetch that is issued (no timeout argument)
crawl_get(url) == [target |-> url, params |-> [only_text |-> TRUE], timeout |-> None]

\* _analyze_ad_creative, lines 40-55
_analyze_ad_creative(out) ==
    IF out.kind = "fail"
    THEN [success |-> FALSE, error |-> out.failure.msg,
          text_content |-> None, extracted_text |-> None]
    ELSE [success |-> TRUE, error |-> "",
          text_content |-> out.cleaned_html, extracted_text |-> out.extracted_content]

(***************************** analyze_ad_creative_elements *****************)
EmptyMap == [k \in {} |-> TRUE]

\* lines 188-194
text_analysis(text_content) ==
    [word_count |-> word_count(text_content),
     character_count |-> Len(text_content),
     sentiment_keywords |-> findall(SentimentWords, lower(text_content)),
     full_text |-> text_content]

\* lines 203-206
detected_ctas(text_content) ==
    findall(CtaPatterns[1], lower(text_content))
        \o findall(CtaPatterns[2], lower(text_content))

\* lines 197-212
cta_analysis(text_content) ==
    [detected_ctas |-> detected_ctas(text_content),
     cta_count |-> Len(detected_ctas(text_content)),
     urgency_words |-> findall(UrgencyWords, lower(text_content))]

\* lines 176-215
analyze_ad_creative_elements(a, out) ==
    LET creative_analysis == _analyze_ad_creative(out)
        text == creative_analysis.extracted_text
    IN  IF ~creative_analysis.success
        THEN Return([error |-> creative_analysis.error, success |-> FALSE])
        ELSE IF (a.extract_text \/ a.detect_cta) /\ text = None
        THEN Raise("AttributeError")
        ELSE Return(
            [ad_url |-> a.ad_snapshot_url,
             ad_id |-> _extract_ad_id_from_url(a.ad_snapshot_url),
             analysis |->
                (IF a.extract_text
                 THEN [text_analysis |-> text_analysis(text[1])] ELSE EmptyMap)
                @@ (IF a.detect_cta
                    THEN [cta_analysis |-> cta_analysis(text[1])] ELSE EmptyMap),
             success |-> TRUE])

Analyze(a) ==
    /\ phase = "serving" /\ pc = "idle"
    /\ call' = [tool |-> "analyze", args |-> a]
    /\ req' = crawl_get(a.ad_snapshot_url)
    /\ pc' = "waiting"
    /\ nreq' = 1
    /\ remote' = NoRemote
    /\ result' = None
    /\ UNCHANGED <<phase, host, exit_status, access_token>>

\* asyncio.run(crawl_page()) came back with `out`; the rest of the handler.
CrawlDone(out) ==
    /\ pc = "waiting" /\ call.tool = "analyze"
    /\ remote' = out
    /\ result' = Some(analyze_ad_creative_elements(call.args, out))
    /\ pc' = "idle"
    /\ UNCHANGED <<phase, host, exit_status, access_token, call, req, nreq>>

(***************************** the process **********************************)
Init ==
    /\ phase = "init" /\ host = "none" /\ exit_status = None /\ access_token = None
    /\ pc = "idle" /\ call = IdleCall /\ req = NoReq /\ nreq = 0
    /\ remote = NoRemote /\ result = None

Urls == { <<"h", "t", "t", "p", "s", ":", "/", "/", "f", "b", ".", "c", "o", "m", "/", "a", "d", "s", "/", "?", "i", "d", "=", "1", "2", "3", "&", "x", "=", "1">>, <<"h", "t", "t", "p", "s", ":", "/", "/", "f", "b", ".", "c", "o", "m", "/", "a", "d", "s", "/", "?", "p", "a", "g", "e", "_", "i", "d", "=", "9", "9">> }
Texts == { <<>>, <<"B", "u", "y", " ", "n", "o", "w", "!", " ", "S", "h", "o", "p", " ", "n", "o", "w", ".", " ", "L", "i", "m", "i", "t", "e", "d", " ", "t", "i", "m", "e", ",", " ", "b", "u", "y", " ", "n", "o", "w", ".">> }
AnalyzeArgs(urls) ==
    [ad_snapshot_url : urls, extract_text : BOOLEAN, analyze_images : BOOLEAN,
     detect_cta : BOOLEAN]

Payloads == OddPayloads \cup {DataPayload(d) : d \in SeqsUpTo(SmallAdObjects, MaxAds)}

CallSearch == \E a \in SearchArgs : Search(a)
CallDiscover == \E a \in DiscoverArgs : Discover(a)
CallAnalyze == \E a \in AnalyzeArgs(Urls) : Analyze(a)
RemoteReplies == \E p \in Payloads : RemoteReply(p)
RemoteFails == \E f \in RequestFailures : RemoteFail(f)
CrawlReplies == \E t \in {None} \cup {Some(x) : x \in Texts} : CrawlDone(CrawlPage(t, t))
CrawlFails == \E f \in CrawlFailures : CrawlDone(CrawlFailure(f))

Next ==
    \/ RunStdio
    \/ RunServerless
    \/ CallSearch
    \/ CallDiscover
    \/ CallAnalyze
    \/ RemoteReplies
    \/ RemoteFails
    \/ CrawlReplies
    \/ CrawlFails

Spec == Init /\ [][Next]_vars

(***************************** responses with longer data arrays ************)
\* The serving process (started over stdio with --facebook-token T1), its
\* search and discovery tools, and every well-formed response of up to
\* MaxDataAds ad objects.
DataInit ==
    /\ phase = "serving" /\ host = "stdio" /\ exit_status = None
    /\ access_token = Some("T1")
    /\ pc = "idle" /\ call = IdleCall /\ req = NoReq /\ nreq = 0
    /\ remote = NoRemote /\ result = None

DataSearchArgs ==
    [brand_name : {"nike"}, country : {"US"}, ad_type : {"ALL"}, date_range : {30},
     limit : {1, MaxLimit}]

DataCallSearch == \E a \in DataSearchArgs : Search(a)
DataRemoteReplies ==
    \E d \in SeqsUpTo(AdObjects, MaxDataAds) : RemoteReply(DataPayload(d))

DataNext ==
    \/ DataCallSearch
    \/ CallDiscover
    \/ DataRemoteReplies

DataSpec == DataInit /\ [][DataNext]_vars

(***************************** snapshot URLs ********************************)
\* analyze_ad_creative_elements waiting for the page of every snapshot URL
\* UrlBase?name=value&name=value..., of up to MaxParams parameters.
UrlBase == <<"h", "t", "t", "p", "s", ":", "/", "/", "f", "b", ".", "c", "o", "m", "/", "a", "d", "s", "/">>
NameChars == {"i", "d", "p"}
ValueChars == {"7", "8", "d"}
QueryParams ==
    {n \o <<"=">> \o v : n \in SeqsUpTo(NameChars, MaxNameLen) \ {<<>>},
                         v \in SeqsUpTo(ValueChars, MaxValueLen) \ {<<>>}}
RECURSIVE JoinParams(_)
JoinParams(ps) ==
    IF ps = <<>> THEN <<>>
    ELSE IF Len(ps) = 1 THEN ps[1]
    ELSE ps[1] \o <<"&">> \o JoinParams(Tail(ps))
QueryUrls == {UrlBase \o <<"?">> \o JoinParams(ps) : ps \in SeqsUpTo(QueryParams, MaxParams)}

Waiting(a) ==
    /\ phase = "serving" /\ host = "stdio" /\ exit_status = None
    /\ access_token = Some("T1")
    /\ pc = "waiting" /\ call = [tool |-> "analyze", args |-> a]
    /\ req = crawl_get(a.ad_snapshot_url) /\ nreq = 1
    /\ remote = NoRemote /\ result = None

UrlInit ==
    \E u \in QueryUrls :
        Waiting([ad_snapshot_url |-> u, extract_text |-> TRUE, analyze_images |-> TRUE,
                 detect_cta |-> TRUE])

UrlCrawlReplies == CrawlDone(CrawlPage(Some(<<>>), Some(<<>>)))

UrlNext == UrlCrawlReplies

UrlSpec == UrlInit /\ [][UrlNext]_vars

(***************************** page texts ***********************************)
\* analyze_ad_creative_elements waiting for a page whose text is up to
\* MaxChunks fragments, one after the other.
Chunks ==
    { <<"B", "u", "y", " ", "n", "o", "w", "!">>, <<"s", "h", "o", "p", " ", "n", "o", "w", ".">>, <<"C", "L", "I", "C", "K", " ", "H", "E", "R", "E">>, <<"b", "u", "y", " ", "n", "o", "w">>, <<" ">>, <<"x">> }

RECURSIVE Flatten(_)
Flatten(ss) == IF ss = <<>> THEN <<>> ELSE Head(ss) \o Flatten(Tail(ss))
ChunkTexts == {Flatten(cs) : cs \in SeqsUpTo(Chunks, MaxChunks)}

TextInit ==
    \E et \in BOOLEAN, dc \in BOOLEAN :
        Waiting([ad_snapshot_url |-> UrlBase, extract_text |-> et,
                 analyze_images |-> TRUE, detect_cta |-> dc])

TextCrawlReplies == \E t \in ChunkTexts : CrawlDone(CrawlPage(Some(t), Some(t)))

TextNext == TextCrawlReplies

TextSpec == TextInit /\ [][TextNext]_vars

(***************************** properties ***********************************)
Returned == result # None
Res == result[1]
Succeeded == Returned /\ ~Res.raised /\ "success" \in DOMAIN Res.value /\ Res.value.success

\* C1: every invocation of the three tools ends by returning a mapping that
\* holds a boolean success key; none ends with an exception leaving the tool.
C1_AlwaysReturnsSuccessFlag ==
    Returned =>
        /\ ~Res.raised
        /\ "success" \in DOMAIN Res.value
        /\ Res.value.success \in BOOLEAN

\* C2: without a token (no --facebook-token value, no FACEBOOK_ACCESS_TOKEN) the
\* process has exited with a non-zero status and serves no tool, whichever
\* entry point hosts the tool set.
C2_NoTokenNoService ==
    (phase # "init" /\ ~Truthy(access_token)) =>
        /\ phase = "exited"
        /\ exit_status # None /\ exit_status[1] # 0
        /\ pc = "idle" /\ ~Returned

C4_RequestsHaveTimeout == pc = "waiting" => req.timeout # None

\* C5: discovered_brands is the sequence of (page_name, count) pairs with
\* count = the number of returned ads of that non-empty page_name and
\* count >= min_ads, by count descending, equal counts in order of first
\* appearance in the response, cut to the first `limit` entries.
AdCount(data, name) == Cardinality({i \in 1..Len(data) : PageName(data[i]) = name})
FirstSeen(data, name) ==
    CHOOSE i \in 1..Len(data) :
        PageName(data[i]) = name /\ \A j \in 1..(i - 1) : PageName(data[j]) # name
Qualified(data, min_ads) ==
    {n \in {PageName(data[i]) : i \in 1..Len(data)} \ {""} :
        AdCount(data, n) >= min_ads}
RanksBefore(data, m, n) ==
    \/ AdCount(data, m) > AdCount(data, n)
    \/ AdCount(data, m) = AdCount(data, n) /\ FirstSeen(data, m) < FirstSeen(data, n)
C5_DiscoveredBrands ==
    (Succeeded /\ call.tool = "discover" /\ WellFormed(remote.payload)) =>
        LET data == remote.payload.data
            q == Qualified(data, call.args.min_ads)
            d == Res.value.discovered_brands
        IN  /\ Len(d) = Min(call.args.limit, Cardinality(q))
            /\ \A i \in 1..Len(d) : d[i][1] \in q /\ d[i][2] = AdCount(data, d[i][1])
            /\ \A i, j \in 1..Len(d) : i < j => RanksBefore(data, d[i][1], d[j][1])
            /\ \A n \in q :
                  (\A i \in 1..Len(d) : d[i][1] # n) =>
                      \A i \in 1..Len(d) : RanksBefore(data, d[i][1], n)
C5_Witness ==
    /\ Succeeded /\ call.tool = "discover"
    /\ call.args.min_ads = 1 /\ call.args.limit = 2
    /\ remote.payload.data =
          <<[page_name |-> "B"], [page_name |-> "C"], [page_name |-> "A"],
            [page_name |-> "C"]>>
    /\ Res.value.discovered_brands = << <<"C", 2>>, <<"B", 1>> >>
    /\ Res.value.total_qualified_brands = 3

QueryOf(url) ==
    IF \E i \in 1..Len(url) : url[i] = "?"
    THEN SubSeq(url, IndexOf(url, "?") + 1, Len(url))
    ELSE <<>>
\* the parameter that starts at position i of the query: up to the next &
ParamAt(q, i) ==
    LET stop == CHOOSE j \in (i - 1)..Len(q) :
                    /\ \A k \in i..j : q[k] # "&"
                    /\ (j = Len(q) \/ q[j + 1] = "&")
    IN  SubSeq(q, i, stop)
ParamStarts(q) == {i \in 1..Len(q) : i = 1 \/ q[i - 1] = "&"}
IsIdParam(p) == p = <<"i", "d">> \/ LitAt(p, 1, IdPrefix)
IdParams(q) == {i \in ParamStarts(q) : IsIdParam(ParamAt(q, i))}
IdValue(q) ==
    LET first == CHOOSE i \in IdParams(q) : \A j \in IdParams(q) : i <= j
        p == ParamAt(q, first)
    IN  SubSeq(p, 4, Len(p))
IsDigitString(s) == s # <<>> /\ \A i \in 1..Len(s) : s[i] \in Digits
C7_AdIdIsTheIdParameter ==
    (Succeeded /\ call.tool = "analyze") =>
        LET q == QueryOf(call.args.ad_snapshot_url)
        IN  /\ IdParams(q) = {} => Res.value.ad_id = None
            /\ (IdParams(q) # {} /\ IsDigitString(IdValue(q))) =>
                  Res.value.ad_id = Some(IdValue(q))

\* C8: with detect_cta and a fetched text, detected_ctas holds each phrase of
\* the two phrase sets once per case-insensitive, word-boundary-delimited
\* occurrence of the phrase in the text, and cta_count is its length.
SameLetter(c, d) ==
    c = d \/ \E i \in 1..26 : {c, d} = {UpperSeq[i], LowerSeq[i]}
OccursAt(text, i, phrase) ==
    /\ i + Len(phrase) - 1 <= Len(text)
    /\ \A k \in 1..Len(phrase) : SameLetter(text[i + k - 1], phrase[k])
    /\ Boundary(text, i) /\ Boundary(text, i + Len(phrase))
Occurrences(text, phrase) == Cardinality({i \in 1..Len(text) : OccursAt(text, i, phrase)})
CountOf(s, x) == Cardinality({i \in 1..Len(s) : s[i] = x})
CtaPhrases == UNION {{CtaPatterns[n][j] : j \in 1..Len(CtaPatterns[n])} : n \in 1..2}
C8_CtaCounts ==
    (Succeeded /\ call.tool = "analyze" /\ call.args.detect_cta) =>
        LET text == remote.extracted_content[1]
            cta == Res.value.analysis.cta_analysis
        IN  /\ \A phrase \in CtaPhrases :
                  CountOf(cta.detected_ctas, phrase) = Occurrences(text, phrase)
            /\ cta.cta_count = Len(cta.detected_ctas)
C8_Witness ==
    /\ Succeeded /\ call.tool = "analyze" /\ call.args.detect_cta
    /\ remote.extracted_content = Some(<<"B", "u", "y", " ", "n", "o", "w", "!", "s", "h", "o", "p", " ", "n", "o", "w", ".", "b", "u", "y", " ", "n", "o", "w">>)
    /\ Res.value.analysis.cta_analysis.detected_ctas = << <<"b", "u", "y", " ", "n", "o", "w">>, <<"s", "h", "o", "p", " ", "n", "o", "w">>, <<"b", "u", "y", " ", "n", "o", "w">> >>
    /\ Res.value.analysis.cta_analysis.cta_count = 3

\* C9: two searches whose arguments differ in one of brand_name, country,
\* ad_type, date_range, limit issue GETs with different query parameters.
DiffersInOneField(a, b) ==
    Cardinality({f \in DOMAIN a : a[f] # b[f]}) = 1
C9_EveryFieldReachesTheQuery ==
    (pc = "waiting" /\ call.tool = "search") =>
        \A b \in SearchArgs :
            DiffersInOneField(call.args, b) =>
                make_request_params(search_params(b), access_token) # req.params

\* C10: the mapping returned by search and discovery does not hold the
\* client's token: it is the same whatever token the client holds.
TokenValues == {None, Some(""), Some("T1"), Some("T2")}
C10_ResultIndependentOfToken ==
    (Returned /\ call.tool \in {"search", "discover"}) =>
        /\ \A t \in TokenValues : ToolResult(call, t, remote) = Res
        /\ (~Res.raised /\ "search_params" \in DOMAIN Res.value) =>
              "access_token" \notin DOMAIN Res.value.search_params
====
